---- MODULE Spec2Model ----
(***************************************************************************)
(* Model of modify_code (src/autogen-autodebug-flow-group.py), the         *)
(* backup / splice / validate / commit-or-rollback file editor.            *)
(*                                                                         *)
(* A file is a sequence of characters.  The calls open their files in      *)
(* text mode, so what is read is the newline-translated content of the     *)
(* file (Decode) and what is written is the encoded text (Encode).         *)
(* Every I/O step (open, read, write) either succeeds or raises; a raise   *)
(* is caught by the handler at lines 236-238.                              *)
(***************************************************************************)
EXTENDS Integers, Sequences, FiniteSets, TLC

\* ------------------------------------------------------------------ bounds
MaxLen == 3       \* longest target file a call starts on, in characters
MaxNew == 2       \* longest new_code of a run of Spec, in characters
MaxSeqNew == 1    \* longest new_code of a run of SpecSeq or SpecTwice
MaxCalls == 2     \* calls made one after the other in a run of SpecSeq
MaxSeqLen == 2    \* longest target file a run of SpecSeq starts on
MaxConcLen == 2   \* longest target file a run of SpecConc starts on

\* -------------------------------------------------------------- characters
LF == "\n"
CR == "\r"
\* "a" is ordinary program text, "(" opens a bracket that nothing closes.
Chars == {"a", "(", LF, CR}

RECURSIVE Strings(_)
Strings(n) ==
    IF n = 0 THEN {<<>>}
    ELSE LET S == Strings(n - 1)
         IN  S \cup {Append(s, c) : s \in {t \in S : Len(t) = n - 1}, c \in Chars}

Max(a, b) == IF a >= b THEN a ELSE b

\* ------------------------------------------------------------------- paths
\* A path is a sequence of name parts.
File == <<"app.py">>

\* backup = f"{filename}.bak"
BackupPath(filename) == filename \o <<".bak">>

Paths == {File, BackupPath(File)}

\* -------------------------------------------------------- text-mode files
\* open(..., "r") reads with universal newlines: "\r\n" and "\r" become "\n".
RECURSIVE Decode(_)
Decode(d) ==
    IF d = <<>> THEN <<>>
    ELSE IF Head(d) = CR
         THEN <<LF>> \o Decode(IF Len(d) >= 2 /\ d[2] = LF
                               THEN SubSeq(d, 3, Len(d))
                               ELSE Tail(d))
         ELSE <<Head(d)>> \o Decode(Tail(d))

\* os.linesep of the platform the program runs on (macOS).
LineSep == <<LF>>

\* open(..., "w") writes every "\n" of the text as os.linesep.
RECURSIVE Encode(_)
Encode(t) ==
    IF t = <<>> THEN <<>>
    ELSE (IF Head(t) = LF THEN LineSep ELSE <<Head(t)>>) \o Encode(Tail(t))

\* Index of the first "\n" of t, 0 when there is none.
FirstLF(t) ==
    IF \E i \in 1..Len(t) : t[i] = LF
    THEN CHOOSE i \in 1..Len(t) : t[i] = LF /\ \A j \in 1..(i - 1) : t[j] # LF
    ELSE 0

\* file.readlines(): the lines of the text, each with its "\n"; a last line
\* without "\n" is a line too.
RECURSIVE ReadLines(_)
ReadLines(t) ==
    IF t = <<>> THEN <<>>
    ELSE LET k == FirstLF(t)
         IN  IF k = 0 THEN <<t>>
             ELSE <<SubSeq(t, 1, k)>> \o ReadLines(SubSeq(t, k + 1, Len(t)))

\* "".join(lines)
RECURSIVE Join(_)
Join(ls) == IF ls = <<>> THEN <<>> ELSE Head(ls) \o Join(Tail(ls))

\* ----------------------------------------------------- the edit's pieces
\* not (0 < start_line <= len(lines) and 0 < end_line <= len(lines))
InvalidRange(start_line, end_line, lines) ==
    ~ (0 < start_line /\ start_line <= Len(lines)
       /\ 0 < end_line /\ end_line <= Len(lines))

\* Splice with the slice stopping one line early, lines[start_line - 1 :
\* end_line - 1], so that the last line of the range survives: the fault
\* that C1 must tell from the code.
SpliceShort(lines, start_line, end_line, new_code) ==
    LET lo == start_line - 1
        hi == Max(lo, end_line - 1)
    IN  SubSeq(lines, 1, lo) \o <<new_code \o <<LF>>>>
        \o SubSeq(lines, hi + 1, Len(lines))

\* lines[start_line - 1 : end_line] = [new_code + "\n"]
\* (a slice whose end lies before its start is the empty slice at its start)
Splice(lines, start_line, end_line, new_code) ==
    LET lo == start_line - 1
        hi == Max(lo, end_line)
    IN  SubSeq(lines, 1, lo) \o <<new_code \o <<LF>>>>
        \o SubSeq(lines, hi + 1, Len(lines))

\* ast.parse(text) raises SyntaxError: over Chars, exactly the texts with a
\* bracket that is never closed.
SyntaxError(text) == \E i \in 1..Len(text) : text[i] = "("


\* --------------------------------------------------------------- messages
\* The second component of a result tuple: a text and, for an OSError
\* raised by open(), the path that str(e) ends with.
Msg(text, path) == [text |-> text, path |-> path]

\* str(e) of the FileNotFoundError raised by open(path, "r")
ENOENT(path) == Msg("[Errno 2] No such file or directory: ", path)
\* str(e) of the PermissionError raised by open(path, ...)
EACCES(path) == Msg("[Errno 13] Permission denied: ", path)
\* str(e) of the exception raised by read() (an OSError, or the
\* UnicodeDecodeError of bytes that do not decode)
EIO == Msg("[Errno 5] Input/output error", <<>>)
\* str(e) of the OSError raised by write() or by the close that flushes it
ENOSPC == Msg("[Errno 28] No space left on device", <<>>)

\* return 1, "Invalid line range"
InvalidRangeResult == <<1, Msg("Invalid line range", <<>>)>>
\* return 1, f"Syntax error: {str(e)}" (without the position str(e) ends with)
SyntaxErrorResult == <<1, Msg("Syntax error: '(' was never closed", <<>>)>>
\* return 0, "Modified successfully"
ModifiedResult == <<0, Msg("Modified successfully", <<>>)>>
\* except Exception as e: return 1, str(e)
ExceptResult(e) == <<1, e>>

\* ------------------------------------------------------------------ state
Procs == {1, 2}

\* The one caller of the specifications whose calls follow one another.
Callers == {1}

NoFile == [exists |-> FALSE, data |-> <<>>]
FileOf(d) == [exists |-> TRUE, data |-> d]
NoArgs == [start_line |-> 0, end_line |-> 0, new_code |-> <<>>]
NoFirst == [args |-> NoArgs, target |-> NoFile]

VARIABLES
    disk,      \* path -> [exists, data]: the two files
    pc,        \* the line each call of modify_code stands at
    args,      \* start_line, end_line, new_code of the call
    buf,       \* the text src.read() returned (lines 209, 226)
    lines,     \* the local list lines (lines 213, 218)
    result,    \* the tuple the call returned, <<>> before it returns
    pre,       \* history: the disk when the call was made
    kind,      \* history: the outcome of the call in the terms of spec.md 7
    bakDone,   \* history: the backup write of this call has completed
    writes,    \* history: the paths this call has opened for writing, in order
    ncalls,    \* history: calls made so far
    budget,    \* the number of calls the caller makes
    returned,  \* history: outcome, result and writes of every call that returned
    repeat,    \* the caller makes its first request again in every later call
    first,     \* history: the first request and the disk it found (when repeat)
    overlap,   \* history: a call was made while another call was running
    codes,     \* the texts the callers pass as new_code
    faulty,    \* open, read and write may raise on files that are there
    ver,       \* version_compare: the two versions given and what came back
    ui,        \* the MacOptimizerUI instance and the calls made on it
    logf,      \* LOG_FILE, LOG_FILE.old and the calls of log
    mem,       \* memory_pressure: what vm_stat printed and what came back
    run,       \* the MacOptimizerUI instance as run_optimization sees it
    opt,       \* a module-level optimize_* routine and the commands it issued
    req        \* check_system_requirements: the version detected and the outcome

\* What the steps of a call leave alone: the caller's side.
caller == <<ncalls, budget, returned, repeat, first, overlap, codes, faulty>>

\* The editor's variables.
editor == <<disk, pc, args, buf, lines, result, pre, kind, bakDone, writes, caller>>

\* The variables of the routines that take no part in the version, window and
\* log models.
rest == <<mem, run, opt, req>>

\* The variables of the other programs of the repository, which no step of
\* modify_code touches.
others == <<ver, ui, logf, rest>>

vars == <<editor, others>>

\* No call of version_compare has been made.
VerOff == [v1 |-> <<>>, v2 |-> <<>>, called |-> FALSE,
           out |-> "None", back |-> "None", self |-> "None"]

\* No MacOptimizerUI has been constructed.
UIOff == [pc |-> "none", at |-> 0, attrs |-> {}, status |-> "unset",
          current_task |-> "unset", notifications |-> <<>>, center |-> <<>>,
          exc |-> "None", shows |-> <<>>]

\* No log call has been made: the run's backup directory is new, so LOG_FILE
\* and LOG_FILE.old do not exist.
LogOff == [file |-> NoFile, old |-> NoFile, n |-> 0, last |-> <<>>,
           rotated |-> FALSE]

\* memory_pressure has not been called.
MemOff == [stats |-> <<>>, called |-> FALSE,
           out |-> [exc |-> "None", text |-> "None", percentage |-> 0, code |-> 0]]

\* The invocations of run_optimization made on the instance.
MaxInvs == 3
Invs == 1..MaxInvs

\* What an optimization function does when it ends: return 0, return another
\* code, raise.
Endings == {"0", "1", "raise"}

\* The instance as __init__ leaves it (lines 644-657: current_task,
\* progress_bar, progress_label and activity_list are None, notifications is
\* empty; progress_percentage, notification_center and loading_overlay are
\* not set), with no invocation made.
RunOff ==
    [widgets |-> FALSE, center |-> FALSE, current_task |-> 0,
     loading_overlay |-> 0, overlays |-> {}, label |-> "None", bar |-> "None",
     percentage |-> "None", cards |-> <<>>, notifications |-> <<>>,
     logged |-> 0,
     pc |-> [i \in Invs |-> "idle"], func |-> [i \in Invs |-> "none"],
     result |-> [i \in Invs |-> "None"], outcome |-> [i \in Invs |-> "None"]]

\* No optimize_* routine has been called.
OptOff ==
    [pc |-> "off", routine |-> "None", at |-> 0, retina |-> FALSE,
     total_steps |-> 0, current_step |-> 0, changes_made |-> 0, exports |-> 0,
     marker |-> FALSE, prefs |-> 0, percent |-> 0, logs |-> 0]

\* check_system_requirements has not been called.
ReqOff == [v |-> <<>>, pc |-> "off", code |-> 0, errors |-> 0]

\* None of the routines of rest has been called.
RestOff == mem = MemOff /\ run = RunOff /\ opt = OptOff /\ req = ReqOff

\* The other programs are not running.
OthersOff == ver = VerOff /\ ui = UIOff /\ logf = LogOff /\ RestOff

\* A stale backup that an earlier run may have left behind.
StaleBackup == <<"a", "a", LF>>

\* The state before the first call: a target of at most n characters or
\* none, a stale backup or none; the caller makes b calls, the same request
\* every time if r, with new_code from c; f: the file system may fail.
Start(n, b, r, c, f) ==
    /\ \E t \in {NoFile} \cup {FileOf(s) : s \in Strings(n)},
          o \in {NoFile, FileOf(StaleBackup)} :
           disk = [q \in Paths |-> IF q = File THEN t ELSE o]
    /\ budget = b
    /\ repeat = r
    /\ codes = c
    /\ faulty = f
    /\ first = NoFirst
    /\ overlap = FALSE
    /\ returned = <<>>
    /\ pc = [p \in Procs |-> "idle"]
    /\ args = [p \in Procs |-> NoArgs]
    /\ buf = [p \in Procs |-> <<>>]
    /\ lines = [p \in Procs |-> <<>>]
    /\ result = [p \in Procs |-> <<>>]
    /\ pre = [p \in Procs |-> disk]
    /\ kind = [p \in Procs |-> "None"]
    /\ bakDone = [p \in Procs |-> FALSE]
    /\ writes = [p \in Procs |-> <<>>]
    /\ ncalls = 0

\* One call on any target of at most MaxLen characters.
Init == Start(MaxLen, 1, FALSE, Strings(MaxNew), TRUE) /\ OthersOff

\* MaxCalls calls, one after the other, starting on a short target.
InitSeq == Start(MaxSeqLen, MaxCalls, FALSE, Strings(MaxSeqNew), TRUE) /\ OthersOff

\* MaxCalls calls with one and the same request.
InitTwice == Start(MaxSeqLen, MaxCalls, TRUE, Strings(MaxSeqNew), TRUE) /\ OthersOff

\* Two callers, one call each, in any interleaving of their steps, on a file
\* system that does not fail: what goes wrong is the interleaving's doing.
InitConc == Start(MaxConcLen, 2, FALSE, {<<"a">>}, FALSE) /\ OthersOff

\* modify_code is not called: no files, no calls to make.
EditorOff ==
    /\ disk = [q \in Paths |-> NoFile]
    /\ Start(0, 0, FALSE, {}, FALSE)

\* The number of lines a reader of the file sees.
LineCount(f) == Len(ReadLines(Decode(f.data)))

\* The proper prefixes of d: what a failed write may leave in a file.
Partial(d) == {SubSeq(d, 1, k) : k \in 0..(Len(d) - 1)}

\* The call returns r; k is its outcome.
Finish(p, r, k) ==
    /\ result' = [result EXCEPT ![p] = r]
    /\ kind' = [kind EXCEPT ![p] = k]
    /\ pc' = [pc EXCEPT ![p] = "done"]

Goto(p, label) ==
    /\ pc' = [pc EXCEPT ![p] = label]
    /\ UNCHANGED <<result, kind>>

\* ----------------------------------------------------------------- steps
\* modify_code(filename, start_line, end_line, new_code) is called.
Call(p) ==
    /\ pc[p] = "idle"
    /\ ncalls < budget
    /\ Len(disk[File].data) <= MaxLen
    /\ \E s, e \in 0..(LineCount(disk[File]) + 1), n \in codes :
         LET a == [start_line |-> s, end_line |-> e, new_code |-> n]
         IN  /\ (repeat /\ ncalls > 0) => a = first.args
             /\ args' = [args EXCEPT ![p] = a]
             /\ first' = IF repeat /\ ncalls = 0
                          THEN [args |-> a, target |-> disk[File]]
                          ELSE first
    /\ pre' = [pre EXCEPT ![p] = disk]
    /\ bakDone' = [bakDone EXCEPT ![p] = FALSE]
    /\ writes' = [writes EXCEPT ![p] = <<>>]
    /\ result' = [result EXCEPT ![p] = <<>>]
    /\ kind' = [kind EXCEPT ![p] = "None"]
    /\ pc' = [pc EXCEPT ![p] = "backup_open_src"]
    /\ ncalls' = ncalls + 1
    /\ overlap' = (overlap \/ \E q \in Procs \ {p} : pc[q] \notin {"idle", "done"})
    /\ UNCHANGED <<disk, buf, lines, budget, returned, repeat, codes, faulty, others>>

\* line 208: open(filename, "r") as src
BackupOpenSrc(p) ==
    /\ pc[p] = "backup_open_src"
    /\ \/ /\ disk[File].exists
          /\ Goto(p, "backup_open_dst")
       \/ /\ ~ disk[File].exists
          /\ Finish(p, ExceptResult(ENOENT(File)), "NotFoundError")
       \/ /\ disk[File].exists /\ faulty
          /\ Finish(p, ExceptResult(EACCES(File)), "ReadError")
    /\ UNCHANGED <<disk, args, buf, lines, pre, bakDone, writes, caller, others>>

\* line 208: open(backup, "w") as dst creates the backup or empties it
BackupOpenDst(p) ==
    /\ pc[p] = "backup_open_dst"
    /\ \/ /\ disk' = [disk EXCEPT ![BackupPath(File)] = FileOf(<<>>)]
          /\ Goto(p, "backup_read")
          /\ writes' = [writes EXCEPT ![p] = Append(@, BackupPath(File))]
       \/ /\ faulty
          /\ Finish(p, ExceptResult(EACCES(BackupPath(File))), "BackupError")
          /\ UNCHANGED <<disk, writes>>
    /\ UNCHANGED <<args, buf, lines, pre, bakDone, caller, others>>

\* line 209: src.read()
BackupRead(p) ==
    /\ pc[p] = "backup_read"
    /\ \/ /\ buf' = [buf EXCEPT ![p] = Decode(disk[File].data)]
          /\ Goto(p, "backup_write")
       \/ /\ faulty
          /\ Finish(p, ExceptResult(EIO), "ReadError")
          /\ UNCHANGED buf
    /\ UNCHANGED <<disk, args, lines, pre, bakDone, writes, caller, others>>

\* A backup step that leaves in the backup what it found there (the copy
\* is never written): the fault that C13 must tell from the code, since a
\* rollback then undoes an applied edit without any interleaving.
BackupWriteStale(p) ==
    /\ pc[p] = "backup_write"
    /\ disk' = [disk EXCEPT ![BackupPath(File)] = pre[p][BackupPath(File)]]
    /\ bakDone' = [bakDone EXCEPT ![p] = TRUE]
    /\ Goto(p, "read_lines")
    /\ UNCHANGED <<args, buf, lines, pre, writes, caller, others>>

\* line 209: dst.write(...), flushed when the with block closes dst
BackupWrite(p) ==
    /\ pc[p] = "backup_write"
    /\ \/ /\ disk' = [disk EXCEPT ![BackupPath(File)] = FileOf(Encode(buf[p]))]
          /\ bakDone' = [bakDone EXCEPT ![p] = TRUE]
          /\ Goto(p, "read_lines")
       \/ /\ faulty
          /\ \E d \in Partial(Encode(buf[p])) :
                 disk' = [disk EXCEPT ![BackupPath(File)] = FileOf(d)]
          /\ Finish(p, ExceptResult(ENOSPC), "BackupError")
          /\ UNCHANGED bakDone
    /\ UNCHANGED <<args, buf, lines, pre, writes, caller, others>>

\* lines 212-213: open(filename, "r"), lines = file.readlines()
ReadFile(p) ==
    /\ pc[p] = "read_lines"
    /\ \/ /\ disk[File].exists
          /\ lines' = [lines EXCEPT ![p] = ReadLines(Decode(disk[File].data))]
          /\ Goto(p, "check_range")
       \/ /\ faulty \/ ~ disk[File].exists
          /\ Finish(p, ExceptResult(IF disk[File].exists THEN EIO ELSE ENOENT(File)),
                    "ReadError")
          /\ UNCHANGED lines
    /\ UNCHANGED <<disk, args, buf, pre, bakDone, writes, caller, others>>

\* lines 215-218: the range check, then the splice
CheckRange(p) ==
    /\ pc[p] = "check_range"
    /\ IF InvalidRange(args[p].start_line, args[p].end_line, lines[p])
       THEN /\ Finish(p, InvalidRangeResult, "RangeError")
            /\ UNCHANGED lines
       ELSE /\ lines' = [lines EXCEPT ![p] =
                            Splice(lines[p], args[p].start_line,
                                   args[p].end_line, args[p].new_code)]
            /\ Goto(p, "validate")
    /\ UNCHANGED <<disk, args, buf, pre, bakDone, writes, caller, others>>

\* lines 221-223: ast.parse("".join(lines))
Validate(p) ==
    /\ pc[p] = "validate"
    /\ IF SyntaxError(Join(lines[p]))
       THEN Goto(p, "restore_open_src")
       ELSE Goto(p, "save_open")
    /\ UNCHANGED <<disk, args, buf, lines, pre, bakDone, writes, caller, others>>

\* line 225: open(backup, "r") as src
RestoreOpenSrc(p) ==
    /\ pc[p] = "restore_open_src"
    /\ \/ /\ disk[BackupPath(File)].exists
          /\ Goto(p, "restore_open_dst")
       \/ /\ faulty \/ ~ disk[BackupPath(File)].exists
          /\ Finish(p, ExceptResult(IF disk[BackupPath(File)].exists
                                    THEN EACCES(BackupPath(File))
                                    ELSE ENOENT(BackupPath(File))),
                    "RestoreError")
    /\ UNCHANGED <<disk, args, buf, lines, pre, bakDone, writes, caller, others>>

\* line 225: open(filename, "w") as dst empties the target
RestoreOpenDst(p) ==
    /\ pc[p] = "restore_open_dst"
    /\ \/ /\ disk' = [disk EXCEPT ![File] = FileOf(<<>>)]
          /\ Goto(p, "restore_read")
          /\ writes' = [writes EXCEPT ![p] = Append(@, File)]
       \/ /\ faulty
          /\ Finish(p, ExceptResult(EACCES(File)), "RestoreError")
          /\ UNCHANGED <<disk, writes>>
    /\ UNCHANGED <<args, buf, lines, pre, bakDone, caller, others>>

\* line 226: src.read()
RestoreRead(p) ==
    /\ pc[p] = "restore_read"
    /\ \/ /\ buf' = [buf EXCEPT ![p] = Decode(disk[BackupPath(File)].data)]
          /\ Goto(p, "restore_write")
       \/ /\ faulty
          /\ Finish(p, ExceptResult(EIO), "RestoreError")
          /\ UNCHANGED buf
    /\ UNCHANGED <<disk, args, lines, pre, bakDone, writes, caller, others>>

\* A restore without the return of line 228, so that the call goes on to
\* save the candidate it has just rolled back: the fault that C14 must tell
\* from the code.
RestoreWriteNoReturn(p) ==
    /\ pc[p] = "restore_write"
    /\ disk' = [disk EXCEPT ![File] = FileOf(Encode(buf[p]))]
    /\ Goto(p, "save_open")
    /\ UNCHANGED <<args, buf, lines, pre, bakDone, writes, caller, others>>

\* lines 226-228: dst.write(...), then return 1, "Syntax error: ..."
RestoreWrite(p) ==
    /\ pc[p] = "restore_write"
    /\ \/ /\ disk' = [disk EXCEPT ![File] = FileOf(Encode(buf[p]))]
          /\ Finish(p, SyntaxErrorResult, "Rejected")
       \/ /\ faulty
          /\ \E d \in Partial(Encode(buf[p])) :
                 disk' = [disk EXCEPT ![File] = FileOf(d)]
          /\ Finish(p, ExceptResult(ENOSPC), "RestoreError")
    /\ UNCHANGED <<args, buf, lines, pre, bakDone, writes, caller, others>>

\* line 231: open(filename, "w") empties the target
SaveOpen(p) ==
    /\ pc[p] = "save_open"
    /\ \/ /\ disk' = [disk EXCEPT ![File] = FileOf(<<>>)]
          /\ Goto(p, "save_write")
          /\ writes' = [writes EXCEPT ![p] = Append(@, File)]
       \/ /\ faulty
          /\ Finish(p, ExceptResult(EACCES(File)), "WriteError")
          /\ UNCHANGED <<disk, writes>>
    /\ UNCHANGED <<args, buf, lines, pre, bakDone, caller, others>>

\* lines 232-235: file.write("".join(lines)), then return 0, ...
SaveWrite(p) ==
    /\ pc[p] = "save_write"
    /\ \/ /\ disk' = [disk EXCEPT ![File] = FileOf(Encode(Join(lines[p])))]
          /\ Finish(p, ModifiedResult, "Applied")
       \/ /\ faulty
          /\ \E d \in Partial(Encode(Join(lines[p]))) :
                 disk' = [disk EXCEPT ![File] = FileOf(d)]
          /\ Finish(p, ExceptResult(ENOSPC), "WriteError")
    /\ UNCHANGED <<args, buf, lines, pre, bakDone, writes, caller, others>>

\* The caller has the result; the locals of the call are gone.
Return(p) ==
    /\ pc[p] = "done"
    /\ pc' = [pc EXCEPT ![p] = "idle"]
    /\ args' = [args EXCEPT ![p] = NoArgs]
    /\ buf' = [buf EXCEPT ![p] = <<>>]
    /\ lines' = [lines EXCEPT ![p] = <<>>]
    /\ returned' = Append(returned, [kind |-> kind[p], result |-> result[p],
                                     writes |-> writes[p]])
    /\ UNCHANGED <<disk, result, pre, kind, bakDone, writes, ncalls, budget,
                   repeat, first, overlap, codes, faulty, others>>

\* A step of the call of p.
Step(p) ==
    \/ Call(p)
    \/ BackupOpenSrc(p)
    \/ BackupOpenDst(p)
    \/ BackupRead(p)
    \/ BackupWrite(p)
    \/ ReadFile(p)
    \/ CheckRange(p)
    \/ Validate(p)
    \/ RestoreOpenSrc(p)
    \/ RestoreOpenDst(p)
    \/ RestoreRead(p)
    \/ RestoreWrite(p)
    \/ SaveOpen(p)
    \/ SaveWrite(p)
    \/ Return(p)

Next == \E p \in Callers : Step(p)

\* Two callers and no lock: any step of either call may come next.
NextConc == \E p \in Procs : Step(p)

Spec == Init /\ [][Next]_vars

SpecSeq == InitSeq /\ [][Next]_vars

SpecTwice == InitTwice /\ [][Next]_vars

SpecConc == InitConc /\ [][NextConc]_vars

\* ============================================================== the claims
\* A line without its "\n".
Chomp(l) == IF l # <<>> /\ l[Len(l)] = LF THEN SubSeq(l, 1, Len(l) - 1) ELSE l

\* The lines a reader of the bytes d sees, without their line ends.
TextLines(d) == LET ls == ReadLines(Decode(d)) IN [i \in 1..Len(ls) |-> Chomp(ls[i])]

Returned(p) == pc[p] = "done"

\* The call ended in an I/O failure of one of its steps.
IOFailed(p) ==
    kind[p] \in {"NotFoundError", "ReadError", "BackupError", "WriteError", "RestoreError"}

PreLines(p) == TextLines(pre[p][File].data)

\* 1 <= start_line <= end_line <= n on the file as it was when the call was made
RangeOK(p) ==
    /\ 1 <= args[p].start_line
    /\ args[p].start_line <= args[p].end_line
    /\ args[p].end_line <= Len(PreLines(p))

HasCandidate(p) ==
    \/ pc[p] \in {"validate", "save_open", "save_write", "restore_open_src",
                  "restore_open_dst", "restore_read", "restore_write"}
    \/ pc[p] = "done" /\ kind[p] \in {"Applied", "Rejected", "WriteError", "RestoreError"}

Candidate(p) == Encode(Join(lines[p]))

\* C2: a call whose candidate the validator rejects returns code 1 and
\* leaves the target with the very bytes it had before the call.
C2_RejectedKeepsContent ==
    \A p \in Procs :
        (Returned(p) /\ kind[p] = "Rejected")
        => /\ result[p][1] = 1
           /\ disk[File] = pre[p][File]

\* C3: on return the target holds the candidate exactly when the call
\* reports Applied, and after Rejected and after every error other than a
\* failed restore it holds its pre-call content.
C3_AllOrNothing ==
    \A p \in Procs :
        Returned(p)
        => /\ kind[p] = "Applied" => disk[File].data = Candidate(p)
           /\ (HasCandidate(p) /\ disk[File].data = Candidate(p)
               /\ Candidate(p) # pre[p][File].data) => kind[p] = "Applied"
           /\ kind[p] \notin {"Applied", "RestoreError"} => disk[File] = pre[p][File]

\* The call stands inside one of its steps (backup, restore, final write).
MidStep(p) ==
    pc[p] \in {"backup_open_dst", "backup_read", "backup_write",
               "restore_open_dst", "restore_read", "restore_write", "save_write"}

\* C4: between the steps of a call and after it, the target holds its
\* pre-call content or a candidate the validator accepted, and the pre-call
\* content is held by the target or by the backup.
C4_NeverInvalidNeverLost ==
    \A p \in Procs :
        (pc[p] # "idle" /\ ~ MidStep(p))
        => /\ \/ disk[File] = pre[p][File]
              \/ /\ HasCandidate(p)
                 /\ disk[File].data = Candidate(p)
                 /\ ~ SyntaxError(Join(lines[p]))
           /\ \/ disk[File] = pre[p][File]
              \/ disk[BackupPath(File)] = pre[p][File]

\* start_line or end_line outside 1..n, or end_line before start_line
RangeBad(p) ==
    \/ args[p].start_line < 1
    \/ args[p].start_line > Len(PreLines(p))
    \/ args[p].end_line > Len(PreLines(p))
    \/ args[p].end_line < args[p].start_line

\* C5: a call with start_line < 1, start_line > n, end_line > n or
\* end_line < start_line returns 1, "Invalid line range" and leaves the
\* target as it was.
C5_BadRangeRefused ==
    \A p \in Procs :
        (Returned(p) /\ RangeBad(p) /\ ~ IOFailed(p))
        => /\ result[p] = InvalidRangeResult
           /\ disk[File] = pre[p][File]

\* C6: a call that ends in RangeError has written nothing: the backup is
\* neither created nor changed and the target is as it was.
C6_RangeErrorWritesNothing ==
    \A p \in Procs :
        (Returned(p) /\ kind[p] = "RangeError") => disk = pre[p]

\* C7: a step of a call changes the target only when the backup write of
\* that call has completed and the backup holds the target's pre-call
\* content; a call whose backup write fails leaves the target alone.
C7_BackupBeforeWrite ==
    [][\A p \in Procs :
          /\ (pc'[p] # pc[p] /\ disk'[File] # disk[File])
             => /\ bakDone[p]
                /\ disk[BackupPath(File)] = pre[p][File]
          /\ (pc'[p] = "done" /\ kind'[p] = "BackupError")
             => /\ disk'[File] = pre[p][File]
                /\ result'[p][1] = 1]_vars

\* C8: after a call that returns Applied or Rejected the backup exists and
\* holds the content the target had when the call was made.
C8_BackupHoldsPreContent ==
    \A p \in Procs :
        (Returned(p) /\ kind[p] \in {"Applied", "Rejected"})
        => /\ disk[BackupPath(File)].exists
           /\ disk[BackupPath(File)].data = pre[p][File].data

\* C9: when the target does not exist or cannot be read the call returns
\* code 1, does not create the target and does not create or change the
\* backup.
C9_UnreadableTouchesNothing ==
    \A p \in Procs :
        (Returned(p) /\ kind[p] \in {"NotFoundError", "ReadError"})
        => /\ result[p][1] = 1
           /\ disk = pre[p]

\* C10: the result of a call whose restore failed differs from the result
\* of every call that ended in another way.
C10_RestoreErrorDistinct ==
    \A i, j \in 1..Len(returned) :
        (returned[i].kind = "RestoreError" /\ returned[j].kind # "RestoreError")
        => returned[i].result # returned[j].result

\* ------------------------------------------------- calls that follow calls
\* The call that returned as the i-th ended in an I/O failure.
IOFailedAt(i) ==
    returned[i].kind \in {"NotFoundError", "ReadError", "BackupError",
                          "WriteError", "RestoreError"}

\* The request the caller repeats names a range that is invalid on the
\* target the first call found: a bound outside 1..n or end_line before
\* start_line.
FirstRangeBad ==
    LET n == Len(TextLines(first.target.data))
    IN  \/ first.args.start_line < 1
        \/ first.args.start_line > n
        \/ first.args.end_line > n
        \/ first.args.end_line < first.args.start_line

\* C11: two calls in a row with the same invalid range on the same target
\* (and no I/O failure) return the same error kind, a code 1 both times, and
\* after the second call the target is as it was before the first.
C11_SameErrorTwice ==
    (Len(returned) = 2 /\ FirstRangeBad /\ ~ IOFailedAt(1) /\ ~ IOFailedAt(2))
    => /\ returned[1].kind = returned[2].kind
       /\ returned[1].result[1] = 1
       /\ returned[2].result[1] = 1
       /\ disk[File] = first.target

\* C12: every call of a sequence writes its backup to one and the same path,
\* the target's path followed by ".bak"; a call that reaches the backup step
\* overwrites what is there, so that from the end of the backup step of the
\* most recent such call on the backup holds the content the target had when
\* that call was made (and no longer that of any earlier call).
C12_OneBackupOverwritten ==
    /\ \A i \in 1..Len(returned) : \A k \in 1..Len(returned[i].writes) :
           returned[i].writes[k] \in {File, File \o <<".bak">>}
    /\ \A p \in Callers :
           bakDone[p] => disk[BackupPath(File)] = FileOf(pre[p][File].data)

\* ------------------------------------------------------- two calls at once
\* Both calls have ended and neither result has been taken yet.
BothDone == \A p \in Procs : pc[p] = "done"

\* What a reader of the file f sees.
Text(f) == Decode(f.data)

\* The rollback of q undid the edit p reported as applied, or the backup q
\* rolled back from was not q's: a lost update.
LostUpdate ==
    \E p, q \in Procs :
        /\ p # q
        /\ BothDone
        /\ kind[q] = "Rejected"
        /\ \/ kind[p] = "Applied" /\ Text(disk[File]) # Decode(Candidate(p))
           \/ Text(disk[BackupPath(File)]) # Text(pre[q][File])

\* C13: modify_code takes no lock.  Of two calls on the same target, one
\* applied and one rolled back, the applied content is overwritten by the
\* other call's restore, or the backup no longer holds the content the
\* rolling-back call started from, only when the steps of the two calls were
\* interleaved: calls that run one after the other never end so.
C13_LostUpdateOnlyInterleaved == LostUpdate => overlap

\* C13 witness: two calls with valid ranges were interleaved, one reported
\* its edit as applied, and the file reads as the other call's restore left it.
C13_Witness ==
    \E p, q \in Procs :
        /\ p # q /\ BothDone /\ overlap
        /\ RangeOK(p) /\ RangeOK(q)
        /\ kind[p] = "Applied" /\ kind[q] = "Rejected"
        /\ Text(disk[File]) # Decode(Candidate(p))
        /\ LostUpdate

\* ------------------------------------------------------------- termination
\* The lines of modify_code in the order a call can pass them.
Labels == <<"idle", "backup_open_src", "backup_open_dst", "backup_read",
            "backup_write", "read_lines", "check_range", "validate",
            "restore_open_src", "restore_open_dst", "restore_read",
            "restore_write", "save_open", "save_write", "done">>

Rank(label) == CHOOSE i \in 1..Len(Labels) : Labels[i] = label

\* How many times the call has opened path for writing.
WriteCount(p, path) == Cardinality({k \in 1..Len(writes[p]) : writes[p][k] = path})

\* C14: every call terminates with exactly one result and never retries a
\* step.  A call that has not returned can always take its next step, every
\* step moves it forward through the lines of the function (so it ends
\* after at most Len(Labels) steps), its result is set once, at the step that
\* ends it, and it writes the backup at most once and the target at most
\* once: the save of the candidate or the restore, never both.
C14_TerminatesOnceNoRetry ==
    /\ [](\A p \in Callers :
             /\ pc[p] \notin {"idle", "done"} => ENABLED Step(p)
             /\ (pc[p] = "done") => result[p] # <<>>
             /\ pc[p] \notin {"idle", "done"} => result[p] = <<>>
             /\ WriteCount(p, BackupPath(File)) <= 1
             /\ WriteCount(p, File) <= 1)
    /\ [][\A p \in Callers :
             /\ (pc'[p] # pc[p] /\ pc[p] # "done") => Rank(pc'[p]) > Rank(pc[p])
             /\ (result'[p] # result[p] /\ pc[p] # "idle")
                => (result[p] = <<>> /\ pc'[p] = "done")]_vars

\* C14 witness: a call has ended after one write of the backup and one write
\* of the target.
C14_Witness ==
    \E p \in Callers :
        /\ pc[p] = "done"
        /\ kind[p] \in {"Applied", "Rejected"}
        /\ writes[p] = <<BackupPath(File), File>>

\* ------------------------------------------------- what the splice leaves
\* The call had a valid range, all its I/O succeeded and the validator
\* accepted its candidate.
ValidAccepted(p) ==
    Returned(p) /\ RangeOK(p) /\ ~ IOFailed(p) /\ kind[p] # "Rejected"

\* The original lines before the range and those after it.
Before(p) == SubSeq(PreLines(p), 1, args[p].start_line - 1)
After(p) == SubSeq(PreLines(p), args[p].end_line + 1, Len(PreLines(p)))

\* C15: with an empty new_code, a valid range and an accepting
\* validator the call returns Applied and the file then reads as the original
\* lines before the range immediately followed by those after it: no blank
\* line stands in place of the range.
C15_EmptyLeavesNoLine ==
    \A p \in Procs :
        (ValidAccepted(p) /\ args[p].new_code = <<>>)
        => /\ result[p] = ModifiedResult
           /\ TextLines(disk[File].data) = Before(p) \o After(p)


\* see_file with f"{i}:{line}": the labels start at 0.
SeeFileFromZero(f) ==
    LET ls == ReadLines(Decode(f.data))
    IN  [i \in 1..Len(ls) |-> [number |-> i - 1, line |-> ls[i]]]

\* see_file: the lines of the file as read in text mode, each with its
\* number in front, f"{i+1}:{line}" (the list that line 163 joins).
SeeFile(f) ==
    LET ls == ReadLines(Decode(f.data))
    IN  [i \in 1..Len(ls) |-> [number |-> i, line |-> ls[i]]]

\* The number of line breaks in the text t.
LineBreaks(t) == Cardinality({i \in 1..Len(t) : t[i] = LF})

\* C16: a new_code with k line breaks goes into the list of lines as one
\* unit in place of the whole range; after an applied edit the file read
\* back has n - (end_line - start_line + 1) + (k + 1) lines, and see_file
\* numbers them as read back: the j-th original line after the range is
\* line start_line + k + j.
C16_OneUnitLineCount ==
    \A p \in Procs :
        ValidAccepted(p)
        => LET n == Len(PreLines(p))
               s == args[p].start_line
               e == args[p].end_line
               k == LineBreaks(args[p].new_code)
               seen == SeeFile(disk[File])
           IN  /\ result[p] = ModifiedResult
               /\ Len(lines[p]) = n - (e - s + 1) + 1
               /\ Len(seen) = n - (e - s + 1) + (k + 1)
               /\ \A j \in 1..(n - e) :
                      /\ s + k + j <= Len(seen)
                      /\ seen[s + k + j].number = s + k + j
                      /\ Chomp(seen[s + k + j].line) = PreLines(p)[e + j]

\* ======================================================== version_compare
\* version_compare of src/gui/src/python-app-nicegui.py, lines 166-176.
MaxVerLen == 3    \* longest version string, in characters

\* The characters of the version strings: three digits and the dot.
VerChars == {"0", "1", "2", "."}

RECURSIVE VerStrings(_)
VerStrings(n) ==
    IF n = 0 THEN {<<>>}
    ELSE LET S == VerStrings(n - 1)
         IN  S \cup {Append(s, c) : s \in {t \in S : Len(t) = n - 1}, c \in VerChars}

Digit(c) ==
    CASE c = "0" -> 0 [] c = "1" -> 1 [] c = "2" -> 2 [] c = "5" -> 5 [] c = "6" -> 6

\* v.split("."): the parts between the dots, empty parts included.
RECURSIVE Split(_)
Split(v) ==
    IF \E i \in 1..Len(v) : v[i] = "."
    THEN LET k == CHOOSE i \in 1..Len(v) :
                      v[i] = "." /\ \A j \in 1..(i - 1) : v[j] # "."
         IN  <<SubSeq(v, 1, k - 1)>> \o Split(SubSeq(v, k + 1, Len(v)))
    ELSE <<v>>

\* int(part) raises ValueError unless part is a non-empty run of digits.
IsDigits(part) == part # <<>> /\ \A i \in 1..Len(part) : part[i] # "."

\* int(part) of a run of digits: its value in base ten.
RECURSIVE ParseInt(_)
ParseInt(part) ==
    IF part = <<>> THEN 0
    ELSE 10 * ParseInt(SubSeq(part, 1, Len(part) - 1)) + Digit(part[Len(part)])

\* list(map(int, v.split("."))) returns.
Parses(v) == \A i \in 1..Len(Split(v)) : IsDigits(Split(v)[i])

\* list(map(int, v.split(".")))
Parts(v) == [i \in 1..Len(Split(v)) |-> ParseInt(Split(v)[i])]

\* The loop with range(min(len(v1_parts), len(v2_parts))): components that
\* one version lacks are never looked at, the fault that C17 must tell from
\* the code.
RECURSIVE VersionLoopShort(_, _, _)
VersionLoopShort(i, v1_parts, v2_parts) ==
    IF i >= Len(v1_parts) \/ i >= Len(v2_parts) THEN 0
    ELSE IF v1_parts[i + 1] > v2_parts[i + 1] THEN 1
    ELSE IF v1_parts[i + 1] < v2_parts[i + 1] THEN 2
    ELSE VersionLoopShort(i + 1, v1_parts, v2_parts)

\* lines 169-176: the loop from its i-th round on, and the return 0 after it.
RECURSIVE VersionLoop(_, _, _)
VersionLoop(i, v1_parts, v2_parts) ==
    IF i >= Max(Len(v1_parts), Len(v2_parts)) THEN 0
    ELSE LET v1_part == IF i < Len(v1_parts) THEN v1_parts[i + 1] ELSE 0
             v2_part == IF i < Len(v2_parts) THEN v2_parts[i + 1] ELSE 0
         IN  IF v1_part > v2_part THEN 1
             ELSE IF v1_part < v2_part THEN 2
             ELSE VersionLoop(i + 1, v1_parts, v2_parts)

\* version_compare(v1, v2): what it returns, or the exception it raises.
version_compare(v1, v2) ==
    IF Parses(v1) /\ Parses(v2)
    THEN VersionLoop(0, Parts(v1), Parts(v2))
    ELSE "ValueError"

\* Any two strings of at most MaxVerLen characters are given.
InitVer ==
    /\ EditorOff
    /\ ui = UIOff
    /\ logf = LogOff
    /\ RestOff
    /\ \E a, b \in VerStrings(MaxVerLen) :
           ver = [VerOff EXCEPT !.v1 = a, !.v2 = b]

\* version_compare is called on the two strings, in both orders, and on the
\* first with itself.
VersionCompare ==
    /\ ~ ver.called
    /\ ver' = [ver EXCEPT !.called = TRUE,
                          !.out = version_compare(ver.v1, ver.v2),
                          !.back = version_compare(ver.v2, ver.v1),
                          !.self = version_compare(ver.v1, ver.v1)]
    /\ UNCHANGED <<editor, ui, logf, rest>>

NextVer == VersionCompare

SpecVer == InitVer /\ [][NextVer]_vars

\* A dotted-integer version string: runs of digits with dots between them.
IsVersion(v) == Parses(v)

\* The i-th component of a version, 0 where it has none.
Component(v, i) == IF i <= Len(Parts(v)) THEN Parts(v)[i] ELSE 0

\* v is the greater version: at the first component where the two differ,
\* v's is the greater integer.
Greater(v, w) ==
    \E i \in 1..Max(Len(Parts(v)), Len(Parts(w))) :
        /\ Component(v, i) > Component(w, i)
        /\ \A j \in 1..(i - 1) : Component(v, j) = Component(w, j)

\* C17: for dotted-integer version strings v1 and v2, version_compare(v1, v2)
\* is 1 when v1 is the greater, 2 when it is the smaller and 0 when they
\* are equal, components compared left to right as integers and missing
\* ones counted as 0; so version_compare(a, b) = 1 exactly when
\* version_compare(b, a) = 2, and version_compare(a, a) = 0.
C17_VersionOrder ==
    (ver.called /\ IsVersion(ver.v1) /\ IsVersion(ver.v2))
    => /\ ver.out = (IF Greater(ver.v1, ver.v2) THEN 1
                     ELSE IF Greater(ver.v2, ver.v1) THEN 2 ELSE 0)
       /\ (ver.out = 0) <=> \A i \in 1..MaxVerLen :
                                Component(ver.v1, i) = Component(ver.v2, i)
       /\ (ver.out = 1) <=> (ver.back = 2)
       /\ ver.self = 0

\* C17 witness: two versions with different numbers of components were
\* compared, and a component that the second lacks decided: 1 came back.
C17_Witness ==
    /\ ver.called /\ IsVersion(ver.v1) /\ IsVersion(ver.v2)
    /\ Len(Parts(ver.v1)) > Len(Parts(ver.v2))
    /\ \A j \in 1..Len(Parts(ver.v2)) : Component(ver.v1, j) = Component(ver.v2, j)
    /\ ver.out = 1

\* ========================================================= MacOptimizerUI
\* The class MacOptimizerUI of src/gui/src/python-app-nicegui.py, lines
\* 642-1240: its constructor, setup_notifications and show_notification.
MaxShow == 3      \* calls of show_notification made on the instance

\* The methods the class defines (the def lines between 643 and 1221).
Methods ==
    {"__init__", "show_error", "update_system_status", "setup_system_monitor",
     "setup_notifications", "show_notification", "show_loading", "hide_loading",
     "show_confirmation", "reset_settings", "backup_current_settings",
     "run_verification", "optimize_system_performance", "optimize_graphics",
     "optimize_display", "optimize_storage", "clear_logs", "filter_logs",
     "set_status", "update_logs", "update_activity", "add_activity",
     "run_with_progress", "log_error", "show_notifications", "get_free_memory",
     "update_progress", "get_recent_notifications", "run_optimization",
     "show_help", "refresh_logs", "confirm_reset"}

\* The statements of __init__ in order: the fields of lines 644-657, the
\* layout of lines 660-745 and the calls and the timer of lines 747-770.
CtorStmts ==
    <<[op |-> "fields", name |-> "__init__"],
      [op |-> "layout", name |-> "__init__"],
      [op |-> "call", name |-> "setup_dashboard"],
      [op |-> "call", name |-> "setup_optimizations"],
      [op |-> "call", name |-> "setup_logs"],
      [op |-> "call", name |-> "setup_settings"],
      [op |-> "call", name |-> "show_page"],
      [op |-> "timer", name |-> "log_monitor"],
      [op |-> "call", name |-> "setup_notifications"],
      [op |-> "call", name |-> "setup_system_monitor"]>>

\* The attributes lines 644-657 set.
FieldAttrs ==
    {"current_task", "progress", "notifications", "dark", "status",
     "cpu_progress", "memory_progress", "disk_progress", "progress_bar",
     "progress_label", "status_label", "activity_list"}

\* The attributes lines 730-745 set.
LayoutAttrs == {"status_label", "error_container", "content", "pages"}

\* The keys of the dict gradients of show_notification (lines 872-877).
Gradients == {"info", "success", "warning", "error"}

\* The messages and types show_notification is called with; "debug" is a
\* type gradients has no entry for.
Messages == {"Test Notification", "Done"}
Types == {"info", "error", "debug"}

\* What a method the class defines does to the instance when called.
CallMethod(u, name) ==
    IF name = "setup_notifications"
    THEN [u EXCEPT !.attrs = @ \cup {"notification_center"}, !.center = <<>>]
    ELSE u

\* app = MacOptimizerUI(): the instance is allocated and __init__ starts.
New ==
    /\ ui.pc = "none"
    /\ ui' = [ui EXCEPT !.pc = "init", !.at = 1]
    /\ UNCHANGED <<editor, ver, logf, rest>>

\* __init__ runs its next statement; a call of a method that the class does
\* not define raises AttributeError and ends the construction.
Construct ==
    /\ ui.pc = "init"
    /\ LET st == CtorStmts[ui.at]
           done == [ui EXCEPT !.at = @ + 1,
                              !.pc = IF ui.at = Len(CtorStmts) THEN "ready" ELSE "init"]
       IN  ui' = CASE st.op = "fields" ->
                        [done EXCEPT !.attrs = @ \cup FieldAttrs,
                                     !.current_task = "None",
                                     !.notifications = <<>>,
                                     !.status = "Ready"]
                   [] st.op = "layout" ->
                        [done EXCEPT !.attrs = @ \cup LayoutAttrs]
                   [] st.op = "timer" ->
                        [done EXCEPT !.attrs = @ \cup {st.name}]
                   [] st.op = "call" ->
                        IF st.name \in Methods
                        THEN CallMethod(done, st.name)
                        ELSE [ui EXCEPT !.pc = "raised", !.exc = "AttributeError"]
    /\ UNCHANGED <<editor, ver, logf, rest>>

\* Whoever holds the instance calls setup_notifications() on it.
SetupNotifications ==
    /\ ui.pc \in {"raised", "ready"}
    /\ "notification_center" \notin ui.attrs
    /\ ui' = CallMethod(ui, "setup_notifications")
    /\ UNCHANGED <<editor, ver, logf, rest>>

\* Whoever holds the instance calls show_notification(message, type) on it:
\* lines 879-891 put a card into the notification center, line 894 starts
\* the timer that deletes it.
ShowNotification(message, type) ==
    /\ ui.pc \in {"raised", "ready"}
    /\ Len(ui.shows) < MaxShow
    /\ LET e == IF "notification_center" \notin ui.attrs THEN "AttributeError"
                ELSE IF type \notin Gradients THEN "KeyError"
                ELSE "None"
       IN  ui' = [ui EXCEPT !.exc = e,
                            !.shows = Append(@, [message |-> message, exc |-> e]),
                            !.center = IF e = "None"
                                       THEN Append(@, [message |-> message,
                                                       type |-> type])
                                       ELSE @]
    /\ UNCHANGED <<editor, ver, logf, rest>>

\* The timer of line 894 fires: notification.delete()
DeleteNotification ==
    /\ ui.center # <<>>
    /\ \E i \in 1..Len(ui.center) :
           ui' = [ui EXCEPT !.center = SubSeq(@, 1, i - 1) \o SubSeq(@, i + 1, Len(@))]
    /\ UNCHANGED <<editor, ver, logf, rest>>

InitUI == EditorOff /\ ver = VerOff /\ logf = LogOff /\ ui = UIOff /\ RestOff

NextUI ==
    \/ New
    \/ Construct
    \/ SetupNotifications
    \/ \E m \in Messages, t \in Types : ShowNotification(m, t)
    \/ DeleteNotification

SpecUI == InitUI /\ [][NextUI]_vars

\* The messages of the calls of show_notification that returned.
Shown ==
    LET ok == SelectSeq(ui.shows, LAMBDA c : c.exc = "None")
    IN  [i \in 1..Len(ok) |-> ok[i].message]

\* C18: every call of show_notification(message) that returns has appended
\* exactly one entry to notifications, whose text is message: the texts of
\* the list are the messages shown, in order, and after one call on a new
\* instance the list has length 1.
C18_ShowAppendsOne ==
    /\ Len(ui.notifications) = Len(Shown)
    /\ \A i \in 1..Len(ui.notifications) : ui.notifications[i].text = Shown[i]

\* C19: the construction of a MacOptimizerUI completes, and the instance it
\* yields has status 'Ready', an empty notifications list and no current
\* task.
C19_ConstructedReady ==
    ui.pc \notin {"none", "init"}
    => /\ ui.pc = "ready"
       /\ ui.status = "Ready"
       /\ ui.notifications = <<>>
       /\ ui.current_task = "None"

\* ================================================================ logging
\* enhanced_logging and log of src/gui/src/python-app-nicegui.py, lines 77-88.
MaxMsgLen == 2    \* longest message, in pieces
MaxLogs == 3      \* calls of log in a run
BlobSize == 524288 \* the characters a "#" piece stands for

\* if ... os.stat(LOG_FILE).st_size > 1048576
RotateSize == 1048576

\* The pieces of a message: an ordinary character, a line break, and "#", a
\* run of BlobSize ordinary characters.
LogChars == {"m", LF, "#"}

RECURSIVE LogStrings(_)
LogStrings(n) ==
    IF n = 0 THEN {<<>>}
    ELSE LET S == LogStrings(n - 1)
         IN  S \cup {Append(s, c) : s \in {t \in S : Len(t) = n - 1}, c \in LogChars}

\* The characters a piece takes in the file: "T" is the timestamp
\* '%Y-%m-%d %H:%M:%S', "INFO" the severity.
Weight(c) ==
    CASE c = "#" -> BlobSize
      [] c = "T" -> 19
      [] c = "INFO" -> 4
      [] OTHER -> 1

\* os.stat(LOG_FILE).st_size
RECURSIVE LogSize(_)
LogSize(d) == IF d = <<>> THEN 0 ELSE Weight(Head(d)) + LogSize(Tail(d))

\* f"[{timestamp}][{severity}] "
LogHeader(severity) == <<"[", "T", "]", "[", severity, "]", " ">>

\* f"[{timestamp}][{severity}] {message}\n"
LogLine(severity, message) == LogHeader(severity) \o message \o <<LF>>

\* enhanced_logging without lines 80-81: the entry is appended to the log
\* whatever its size.
EnhancedLoggingNoRotate(l, severity, message) ==
    [l EXCEPT !.file = FileOf((IF l.file.exists THEN l.file.data ELSE <<>>)
                              \o Encode(LogLine(severity, message))),
              !.rotated = FALSE]

\* enhanced_logging(severity, message) on the log l: lines 80-84.
EnhancedLogging(l, severity, message) ==
    LET rotate == l.file.exists /\ LogSize(l.file.data) > RotateSize
        kept == IF l.file.exists /\ ~ rotate THEN l.file.data ELSE <<>>
    IN  [l EXCEPT !.old = IF rotate THEN l.file ELSE @,
                  !.file = FileOf(kept \o Encode(LogLine(severity, message))),
                  !.rotated = rotate]

\* enhanced_logging that appends first and moves an oversized log away
\* afterwards, so that LOG_FILE is gone when the call returns: the fault
\* that C20 must tell from the code.
LogRotateAfter(message) ==
    /\ logf.n < MaxLogs
    /\ LET data == (IF logf.file.exists THEN logf.file.data ELSE <<>>)
                   \o Encode(LogLine("INFO", message))
           rotate == LogSize(data) > RotateSize
       IN  logf' = [logf EXCEPT !.old = IF rotate THEN FileOf(data) ELSE @,
                                !.file = IF rotate THEN NoFile ELSE FileOf(data),
                                !.rotated = rotate,
                                !.n = @ + 1,
                                !.last = message]
    /\ UNCHANGED <<editor, ver, ui, rest>>

\* log(message): enhanced_logging("INFO", message)
Log(message) ==
    /\ logf.n < MaxLogs
    /\ logf' = [EnhancedLogging(logf, "INFO", message) EXCEPT !.n = @ + 1,
                                                              !.last = message]
    /\ UNCHANGED <<editor, ver, ui, rest>>

InitLog == EditorOff /\ ver = VerOff /\ ui = UIOff /\ logf = LogOff /\ RestOff

NextLog == \E m \in LogStrings(MaxMsgLen) : Log(m)

SpecLog == InitLog /\ [][NextLog]_vars

\* logs[-1] of the lines read from LOG_FILE (test lines 41-43).
LastLogLine ==
    LET logs == ReadLines(Decode(logf.file.data))
    IN  logs[Len(logs)]

\* message in line
Contains(line, message) ==
    \E i \in 1..(Len(line) - Len(message) + 1) :
        SubSeq(line, i, i + Len(message) - 1) = message

HasLineBreak(message) == \E i \in 1..Len(message) : message[i] = LF

\* The part of the message after its last line break.
RECURSIVE AfterLastBreak(_)
AfterLastBreak(message) ==
    IF HasLineBreak(message) THEN AfterLastBreak(Tail(message)) ELSE message

\* C20 as stated: after any sequence of log calls the last line of LOG_FILE
\* contains the message of the most recent call, also when that call found
\* the log over the size threshold and rotated it first.
C20_LastLineHasMessage ==
    logf.n > 0
    => /\ logf.file.exists
       /\ Contains(LastLogLine, logf.last)

\* C20 amended: after any sequence of log calls LOG_FILE exists and its last
\* line ends with the part of the most recent message after its last line
\* break, also after a rotation; so it contains the whole message, behind
\* the timestamp and the severity, when the message has no line break.
C20_LastLineHasMessageTail ==
    logf.n > 0
    => /\ logf.file.exists
       /\ LastLogLine = (IF HasLineBreak(logf.last) THEN <<>> ELSE LogHeader("INFO"))
                        \o AfterLastBreak(logf.last) \o <<LF>>
       /\ ~ HasLineBreak(logf.last) => Contains(LastLogLine, logf.last)
       /\ logf.rotated => logf.old.exists /\ LogSize(logf.old.data) > RotateSize

\* The entry the most recent call wrote, as it stands in the file.
LastEntry == Encode(LogLine("INFO", logf.last))

\* C25: an entry is appended only to a log of at most 1048576 bytes; a call
\* that finds the log larger moves it to LOG_FILE.old, in place of any old
\* file there was, and its entry is the first line of a new log; a call that
\* does not leaves LOG_FILE.old as it was and adds its entry at the end.
C25_RotateBeforeAppend ==
    /\ [](logf.n > 0 => LogSize(logf.file.data) - LogSize(LastEntry) <= RotateSize)
    /\ [][logf'.n = logf.n + 1 =>
             IF logf.file.exists /\ LogSize(logf.file.data) > RotateSize
             THEN logf'.old = logf.file /\ logf'.file = FileOf(LastEntry')
             ELSE /\ logf'.old = logf.old
                  /\ logf'.file = FileOf((IF logf.file.exists THEN logf.file.data
                                          ELSE <<>>) \o LastEntry')]_vars

\* The third call moved away the log that the second call had started after
\* moving away the first: LOG_FILE.old holds the entry of the second call
\* alone.
C25_Witness ==
    /\ logf.n = 3 /\ logf.rotated
    /\ logf.old = FileOf(Encode(LogLine("INFO", <<"#", "#">>)))

\* C20 witness: a call of log found the log over the threshold, rotated it
\* and wrote a message without line breaks.
C20_Witness ==
    /\ logf.n >= 2 /\ logf.rotated
    /\ logf.last # <<>> /\ ~ HasLineBreak(logf.last)
    /\ logf.old.exists

\* ---------------------------------------------------------------------------
\* memory_pressure (src/gui/src/python-app-nicegui.py, lines 114-126)
\* ---------------------------------------------------------------------------

\* The longest vm_stat output, in lines.
MaxStatLines == 4

\* The labels vm_stat prints before the four counts the code reads. A word is
\* a sequence of pieces, so that "active" is a prefix of the word "active:".
StatLabels ==
    { << <<"Pages">>, <<"free", ":">> >>,
      << <<"Pages">>, <<"active", ":">> >>,
      << <<"Pages">>, <<"wired">>, <<"down", ":">> >>,
      << <<"Pages">>, <<"occupied">>, <<"by">>, <<"compressor", ":">> >> }

\* What follows a label: nothing, a count with its full stop, or a full stop
\* alone.
StatValues ==
    { <<>>, << <<"0", ".">> >>, << <<"1", "2", ".">> >>, << <<".">> >> }

\* The lines of an output of vm_stat, each as line.split() returns it; the
\* last is what the shell prints where there is no vm_stat.
StatLines ==
    {l \o v : l \in StatLabels, v \in StatValues}
        \cup { << <<"vm_stat", ":">>, <<"not">>, <<"found">> >> }

\* The outputs of n lines.
StatOutputs(n) == [1..n -> StatLines]

\* word.startswith(piece) and word.endswith(piece) on words of pieces.
StartsWith(word, piece) == word # <<>> /\ word[1] = piece
EndsWith(word, piece) == word # <<>> /\ word[Len(word)] = piece

\* phrase in line, for a phrase of words separated by single blanks: the
\* phrase's first word ends a word of the line, its last word starts a later
\* one, and the words between are the line's.
PhraseIn(phrase, line) ==
    \E i \in 0..(Len(line) - Len(phrase)) :
        /\ EndsWith(line[i + 1], phrase[1])
        /\ StartsWith(line[i + Len(phrase)], phrase[Len(phrase)])
        /\ \A j \in 2..(Len(phrase) - 1) : line[i + j] = <<phrase[j]>>

\* word.replace('.', '')
NoDots(word) == SelectSeq(word, LAMBDA c : c # ".")

\* int(word) returns: word is a non-empty run of digits.
IsCount(word) == word # <<>> /\ \A i \in 1..Len(word) : word[i] \in {"0", "1", "2"}

\* int(next(line.split()[k].replace('.', '') for line in
\* memory_stats.splitlines() if phrase in line)), lines 117-120: the count, or
\* the exception raised.
StatCount(stats, phrase, k) ==
    LET found == {i \in 1..Len(stats) : PhraseIn(phrase, stats[i])}
    IN  IF found = {} THEN [exc |-> "StopIteration", val |-> 0]
        ELSE LET line == stats[CHOOSE i \in found : \A j \in found : i <= j]
             IN  IF Len(line) < k + 1 THEN [exc |-> "IndexError", val |-> 0]
                 ELSE IF ~IsCount(NoDots(line[k + 1]))
                      THEN [exc |-> "ValueError", val |-> 0]
                      ELSE [exc |-> "None", val |-> ParseInt(NoDots(line[k + 1]))]

\* The classes that `except Exception` (line 125) catches.
Exceptions == {"StopIteration", "IndexError", "ValueError", "ZeroDivisionError"}

\* What a call that raised has not returned.
NoReturn(exc) == [exc |-> exc, text |-> "None", percentage |-> 0, code |-> 0]

\* The body of the try block, lines 116-124: the tuple returned or the
\* exception raised.
MemoryTry(stats) ==
    LET active == StatCount(stats, <<"Pages", "active">>, 2)
        wired == StatCount(stats, <<"Pages", "wired">>, 3)
        compressed == StatCount(stats, <<"Pages", "occupied", "by", "compressor">>, 4)
        free == StatCount(stats, <<"Pages", "free">>, 2)
        used == active.val + wired.val + compressed.val
        total == used + free.val
    IN  IF active.exc # "None" THEN NoReturn(active.exc)
        ELSE IF wired.exc # "None" THEN NoReturn(wired.exc)
        ELSE IF compressed.exc # "None" THEN NoReturn(compressed.exc)
        ELSE IF free.exc # "None" THEN NoReturn(free.exc)
        ELSE IF total = 0 THEN NoReturn("ZeroDivisionError")
        ELSE [exc |-> "None", text |-> "System memory pressure: ",
              percentage |-> (used * 100) \div total, code |-> 0]

\* The function with `except ValueError` as its handler: a missing line, a
\* line without a count and a total of zero pages then leave the function as
\* exceptions.
memory_pressureValueError(stats) ==
    LET r == MemoryTry(stats)
    IN  IF r.exc = "ValueError"
        THEN [exc |-> "None", text |-> "System memory pressure: Unable to calculate",
              percentage |-> 0, code |-> 1]
        ELSE r

\* memory_pressure(), lines 114-126, on the output stats of vm_stat.
memory_pressure(stats) ==
    LET r == MemoryTry(stats)
    IN  IF r.exc \in Exceptions
        THEN [exc |-> "None", text |-> "System memory pressure: Unable to calculate",
              percentage |-> 0, code |-> 1]
        ELSE r

\* vm_stat printed any output of up to MaxStatLines lines.
InitMem ==
    /\ EditorOff
    /\ ver = VerOff /\ ui = UIOff /\ logf = LogOff
    /\ run = RunOff /\ opt = OptOff /\ req = ReqOff
    /\ \E n \in 0..MaxStatLines :
           \E s \in StatOutputs(n) : mem = [MemOff EXCEPT !.stats = s]

\* pressure, code = memory_pressure() (test line 29).
MemoryPressure ==
    /\ ~mem.called
    /\ mem' = [mem EXCEPT !.called = TRUE, !.out = memory_pressure(mem.stats)]
    /\ UNCHANGED <<editor, ver, ui, logf, run, opt, req>>

NextMem == MemoryPressure

SpecMem == InitMem /\ [][NextMem]_vars

\* The count vm_stat printed under a label: the number after the first line
\* that starts with the label, if such a line exists and carries a number.
LabelLines(label) ==
    {i \in 1..Len(mem.stats) :
        /\ Len(mem.stats[i]) >= Len(label)
        /\ SubSeq(mem.stats[i], 1, Len(label)) = label}

Printed(label) ==
    LET line == mem.stats[CHOOSE i \in LabelLines(label) :
                              \A j \in LabelLines(label) : i <= j]
    IN  IF LabelLines(label) = {} \/ Len(line) = Len(label) THEN <<>>
        ELSE NoDots(line[Len(label) + 1])

PagesFree == Printed(<< <<"Pages">>, <<"free", ":">> >>)
PagesActive == Printed(<< <<"Pages">>, <<"active", ":">> >>)
PagesWired == Printed(<< <<"Pages">>, <<"wired">>, <<"down", ":">> >>)
PagesCompressed ==
    Printed(<< <<"Pages">>, <<"occupied">>, <<"by">>, <<"compressor", ":">> >>)

ParseFails ==
    \E c \in {PagesFree, PagesActive, PagesWired, PagesCompressed} : ~IsCount(c)

PagesUsed == ParseInt(PagesActive) + ParseInt(PagesWired) + ParseInt(PagesCompressed)
PagesTotal == PagesUsed + ParseInt(PagesFree)

\* C21: memory_pressure never raises and returns a pair whose code is 0 or 1;
\* with code 0 the text carries (active + wired + compressed) * 100 //
\* (active + wired + compressed + free), a number in 0..100; a count that does
\* not parse and a total of zero pages give code 1.
C21_MemoryPressureContract ==
    mem.called =>
        /\ mem.out.exc = "None"
        /\ mem.out.code \in {0, 1}
        /\ (ParseFails \/ PagesTotal = 0) => mem.out.code = 1
        /\ mem.out.code = 0 =>
               /\ ~ParseFails /\ PagesTotal # 0
               /\ mem.out.percentage = (PagesUsed * 100) \div PagesTotal
               /\ mem.out.percentage \in 0..100

\* A call that returned a percentage strictly between 0 and 100.
C21_Witness ==
    mem.called /\ mem.out.code = 0 /\ mem.out.percentage \in 1..99

\* ---------------------------------------------------------------------------
\* MacOptimizerUI.run_optimization (src/gui/src/python-app-nicegui.py, lines
\* 1159-1191) with show_loading, hide_loading, run_with_progress, log_error
\* and add_activity, on the event loop of the interface.
\* ---------------------------------------------------------------------------

\* self.show_notification(message, type), lines 871-894: a card in the
\* notification center, or AttributeError where the instance has none.
RunShow(r, message) ==
    IF r.center THEN [r EXCEPT !.cards = Append(@, message)] ELSE r

\* self.add_activity(text, ...), lines 1098-1106: the entry, then
\* update_activity, which raises AttributeError on an activity_list of None.
RunAddActivity(r, text) == [r EXCEPT !.notifications = Append(@, text)]

\* The finally block without line 1190: current_task keeps the finished task.
RunFinallyKeepTask(r) == [r EXCEPT !.overlays = @ \ {r.loading_overlay}]

\* The finally block, lines 1189-1191.
RunFinally(r) ==
    [r EXCEPT !.current_task = 0, !.overlays = @ \ {r.loading_overlay}]

\* The except block, lines 1184-1188, and the finally block after it; the
\* handler is left by the first statement of it that raises.
RunExcept(r, i) ==
    LET shown == RunShow(r, "Error")
        labelled == IF r.center /\ r.widgets
                    THEN [shown EXCEPT !.label = "Error"]
                    ELSE shown
        added == IF r.center /\ r.widgets
                 THEN RunAddActivity(labelled, "Error")
                 ELSE labelled
    IN  [RunFinally(added) EXCEPT
             !.pc[i] = "done",
             !.outcome[i] = IF r.center /\ r.widgets THEN "returned" ELSE "raised"]

\* Lines 1173-1182 and the finally block: what follows `await
\* self.current_task` when the function returned result.
RunComplete(r, i, text) ==
    IF ~r.center THEN RunExcept(r, i)
    ELSE LET shown == RunShow(r, text)
             added == RunAddActivity(shown, text)
             told == [added EXCEPT !.label = "Optimization Complete",
                                   !.bar = "1", !.percentage = "100%"]
         IN  [RunFinally(told) EXCEPT !.pc[i] = "done", !.outcome[i] = "returned"]

\* Whoever holds the instance gives it the widgets that lines 1166-1168 and
\* update_activity write to.
AssignWidgets ==
    /\ ~run.widgets
    /\ run' = [run EXCEPT !.widgets = TRUE, !.label = "", !.bar = "0",
                          !.percentage = "0%"]
    /\ UNCHANGED <<editor, ver, ui, logf, mem, opt, req>>

\* Whoever holds the instance calls setup_notifications() on it (lines
\* 866-869).
RunSetupNotifications ==
    /\ ~run.center
    /\ run' = [run EXCEPT !.center = TRUE]
    /\ UNCHANGED <<editor, ver, ui, logf, mem, opt, req>>

\* The invocation without the guard of lines 1160-1162.
InvokeUnguarded(i) ==
    /\ run.pc[i] = "idle"
    /\ LET loading == [run EXCEPT !.loading_overlay = i, !.overlays = @ \cup {i}]
       IN  run' =
               IF ~run.widgets
               THEN RunExcept(loading, i)
               ELSE [loading EXCEPT !.label = "Running optimization...",
                                    !.bar = "0", !.percentage = "0%",
                                    !.current_task = i,
                                    !.pc[i] = "awaiting",
                                    !.func[i] = "created"]
    /\ UNCHANGED <<editor, ver, ui, logf, mem, opt, req>>

\* The event loop starts invocation i of run_optimization and runs it up to
\* its first await (line 1171) or to its end: the guard of lines 1160-1162,
\* show_loading, the progress widgets, create_task.
Invoke(i) ==
    /\ run.pc[i] = "idle"
    /\ LET loading == [run EXCEPT !.loading_overlay = i, !.overlays = @ \cup {i}]
       IN  run' =
               IF run.current_task # 0
               THEN [RunShow(run, "An optimization is already running") EXCEPT
                         !.pc[i] = "done",
                         !.outcome[i] = IF run.center THEN "rejected" ELSE "raised"]
               ELSE IF ~run.widgets
               THEN RunExcept(loading, i)
               ELSE [loading EXCEPT !.label = "Running optimization...",
                                    !.bar = "0", !.percentage = "0%",
                                    !.current_task = i,
                                    !.pc[i] = "awaiting",
                                    !.func[i] = "created"]
    /\ UNCHANGED <<editor, ver, ui, logf, mem, opt, req>>

\* The task of line 1170 runs run_with_progress up to its await:
\* asyncio.to_thread(func) starts the optimization function in a thread.
StartFunc(i) ==
    /\ run.func[i] = "created"
    /\ run' = [run EXCEPT !.func[i] = "running"]
    /\ UNCHANGED <<editor, ver, ui, logf, mem, opt, req>>

\* The optimization function ends in its thread.
EndFunc(i, ending) ==
    /\ run.func[i] = "running"
    /\ run' = [run EXCEPT !.func[i] = ending]
    /\ UNCHANGED <<editor, ver, ui, logf, mem, opt, req>>

\* The event loop resumes run_with_progress (lines 1111-1115: log_error on
\* an exception, which writes to LOG_FILE if it can open it) and then
\* invocation i after its await, up to its end.
ResumeRun(i) ==
    /\ run.pc[i] = "awaiting"
    /\ run.func[i] \in Endings
    /\ \E opened \in IF run.func[i] = "raise" THEN BOOLEAN ELSE {TRUE} :
       LET ended == [run EXCEPT !.func[i] = "none", !.result[i] = run.func[i]]
           logged == IF opened
                     THEN [ended EXCEPT !.logged = @ + 1,
                                        !.notifications = Append(@, "Error during optimization")]
                     ELSE ended
       IN  run' = CASE run.func[i] = "0" ->
                         RunComplete(ended, i, "Optimization completed")
                    [] run.func[i] = "1" ->
                         RunComplete(ended, i, "Optimization completed with warnings")
                    [] run.func[i] = "raise" ->
                         RunExcept(logged, i)
    /\ UNCHANGED <<editor, ver, ui, logf, mem, opt, req>>

\* The timer of line 894 fires: the oldest card leaves the notification
\* center.
RunDeleteCard ==
    /\ run.cards # <<>>
    /\ run' = [run EXCEPT !.cards = Tail(@)]
    /\ UNCHANGED <<editor, ver, ui, logf, mem, opt, req>>

InitRun == OthersOff /\ EditorOff

NextRun ==
    \/ AssignWidgets
    \/ RunSetupNotifications
    \/ \E i \in Invs : Invoke(i)
    \/ \E i \in Invs : StartFunc(i)
    \/ \E i \in Invs, e \in Endings : EndFunc(i, e)
    \/ \E i \in Invs : ResumeRun(i)
    \/ RunDeleteCard

SpecRun == InitRun /\ [][NextRun]_vars

\* The event loop resumes what waits, threads start, and an optimization
\* function that runs ends.
SpecRunFair ==
    /\ SpecRun
    /\ \A i \in Invs : WF_vars(StartFunc(i))
    /\ \A i \in Invs : WF_vars(\E e \in Endings : EndFunc(i, e))
    /\ \A i \in Invs : WF_vars(ResumeRun(i))

\* The invocations whose optimization function has been handed to a thread
\* and has not ended.
Executing == {i \in Invs : run.func[i] \in {"created", "running"}}

\* Invocation i arrives in this step.
Arrives(i) == run.pc[i] = "idle" /\ run'.pc[i] # "idle"

\* C22: at most one optimization function is executing at any time, and an
\* invocation of run_optimization that arrives while current_task is set
\* starts no task and leaves current_task, the progress bar and the loading
\* overlay as they were.
C22_OneAtATime ==
    /\ [](Cardinality(Executing) <= 1)
    /\ [][\A i \in Invs :
              (Arrives(i) /\ run.current_task # 0)
              => /\ run'.func = run.func
                 /\ run'.pc[i] = "done"
                 /\ run'.current_task = run.current_task
                 /\ run'.bar = run.bar
                 /\ run'.percentage = run.percentage
                 /\ run'.overlays = run.overlays
                 /\ run'.loading_overlay = run.loading_overlay]_vars

\* An invocation was turned away while the function of another was running.
C22_Witness ==
    \E i, j \in Invs : run.outcome[i] = "rejected" /\ run.func[j] = "running"

\* C23: an invocation of run_optimization that started a task ends, whether
\* the function returned 0, returned another code or raised; when it ends
\* current_task is None and its loading overlay is gone; so current_task is
\* only ever set to the task of an invocation that has not ended.
C23_TaskAlwaysReset ==
    /\ \A i \in Invs : (run.pc[i] = "awaiting") ~> (run.pc[i] = "done")
    /\ [][\A i \in Invs :
              (run.pc[i] = "awaiting" /\ run'.pc[i] = "done")
              => run'.current_task = 0 /\ i \notin run'.overlays]_vars
    /\ [](run.current_task # 0 => run.pc[run.current_task] = "awaiting")

\* An invocation whose function raised has ended and a later one has started
\* its task.
C23_Witness ==
    \E i, j \in Invs :
        /\ run.pc[i] = "done" /\ run.result[i] = "raise"
        /\ run.pc[j] = "awaiting" /\ run.current_task = j

\* ---------------------------------------------------------------------------
\* The module-level optimize_* routines of src/gui/src/python-app-nicegui.py:
\* optimize_system_performance (241-316), optimize_graphics (334-427) with
\* backup_graphics_settings (430-438), optimize_display (477-556) and
\* optimize_storage (559-628), each as the sequence of its statements.
\* ---------------------------------------------------------------------------

\* log(...) or success(...)
Logs == [op |-> "log", kind |-> "", skip |-> 0, form |-> ""]

\* current_step += 1
Count == [op |-> "count", kind |-> "", skip |-> 0, form |-> ""]

\* subprocess.run of a command of the kind cmd; a return code other than 0
\* skips the next `skip` statements (0 where the code is not looked at).
Run(cmd, skip) == [op |-> "run", kind |-> cmd, skip |-> skip, form |-> ""]

\* changes_made.append(...)
Changed == [op |-> "changed", kind |-> "", skip |-> 0, form |-> ""]

\* show_progress or track_progress_no_dialog with the arguments of the form.
Report(form) == [op |-> "report", kind |-> "", skip |-> 0, form |-> form]

\* open(..., "w"), and the write to what was opened
Write(file) == [op |-> "write", kind |-> file, skip |-> 0, form |-> ""]

\* if is_retina: ... else: the jump to the else branch, and the jump over it.
IfRetina(skip) == [op |-> "if_retina", kind |-> "", skip |-> skip, form |-> ""]
Skip(skip) == [op |-> "skip", kind |-> "", skip |-> skip, form |-> ""]

\* return 0
Return0 == [op |-> "return", kind |-> "", skip |-> 0, form |-> ""]

\* The body of one of the loops over sysctl_params and network_params (lines
\* 258-266, 299-307), and the same statements for pmset and nvram (270-288).
SysBlock(cmd) == <<Count, Run(cmd, 1), Changed, Report("step")>>

\* n rounds of a loop.
RECURSIVE Rounds(_, _)
Rounds(n, block) == IF n = 0 THEN <<>> ELSE block \o Rounds(n - 1, block)

\* optimize_system_performance, lines 241-316: six kernel parameters, pmset,
\* nvram, five network parameters.
SystemPerformance ==
    <<Logs>> \o Rounds(6, SysBlock("sysctl")) \o SysBlock("pmset")
        \o SysBlock("nvram") \o Rounds(5, SysBlock("sysctl")) \o <<Logs, Return0>>

\* backup_graphics_settings, lines 430-438.
BackupGraphics ==
    <<Run("export", 0), Run("export", 0), Run("export", 0), Run("export", 0),
      Write("last_graphics_backup"), Logs>>

\* optimize_graphics with the call of backup_graphics_settings after the
\* window server block instead of before it.
GraphicsBackupLate ==
    <<Logs>>
        \o <<Count, Run("pref", 4), Run("pref", 0), Run("pref", 0), Run("pref", 0),
             Changed, Report("step")>>
        \o BackupGraphics
        \o <<Count, Run("pref", 3), Run("pref", 0), Run("pref", 0),
             Changed, Report("step")>>
        \o <<Count, Run("pref", 3), Run("pref", 0), Run("pref", 0),
             Changed, Report("step")>>
        \o <<Count, Run("pref", 4), Run("pref", 3), Run("pref", 0), Run("pref", 0),
             Changed, Report("step")>>
        \o <<Count, Run("pref", 4), Run("pref", 3), Run("pref", 0), Run("pref", 0),
             Changed, Report("step")>>
        \o <<Run("kill", 0), Run("kill", 0), Run("kill", 0), Logs, Return0>>

\* optimize_graphics, lines 334-427: the backup, then the blocks of lines
\* 346-356, 360-369, 373-382, 384-394 and 398-408, then the killall commands.
Graphics ==
    <<Logs>> \o BackupGraphics
        \o <<Count, Run("pref", 4), Run("pref", 0), Run("pref", 0), Run("pref", 0),
             Changed, Report("step")>>
        \o <<Count, Run("pref", 3), Run("pref", 0), Run("pref", 0),
             Changed, Report("step")>>
        \o <<Count, Run("pref", 3), Run("pref", 0), Run("pref", 0),
             Changed, Report("step")>>
        \o <<Count, Run("pref", 4), Run("pref", 3), Run("pref", 0), Run("pref", 0),
             Changed, Report("step")>>
        \o <<Count, Run("pref", 4), Run("pref", 3), Run("pref", 0), Run("pref", 0),
             Changed, Report("step")>>
        \o <<Run("kill", 0), Run("kill", 0), Run("kill", 0), Logs, Return0>>

\* One of the blocks of lines 505-526 of optimize_display.
DisplayBlock ==
    <<Count, Report("of_total"), Run("pref", 2), Run("pref", 1), Changed>>

\* optimize_display, lines 477-556.
Display ==
    <<Logs, Write("before"), Run("probe", 0), Run("probe", 0)>>
        \o <<Count, Report("of_total"), IfRetina(4),
             Run("pref", 5), Run("pref", 4), Changed, Skip(2),
             Run("pref", 1), Changed>>
        \o Rounds(3, DisplayBlock)
        \o <<Count, Report("of_total"), Run("kill", 0)>>
        \o <<Write("after"), Run("probe", 0), Return0>>

\* One of the steps of lines 569-618 of optimize_storage, with n rm commands.
StorageBlock(n) ==
    <<Count, Write("log")>> \o Rounds(n, <<Run("rm", 0)>>) \o <<Report("percent")>>

\* optimize_storage, lines 559-628.
Storage ==
    <<Logs, Run("probe", 0), Run("probe", 0)>>
        \o StorageBlock(1) \o StorageBlock(1) \o StorageBlock(5)
        \o StorageBlock(1) \o StorageBlock(1)
        \o <<Run("probe", 0), Logs, Return0>>

Routines == {"system_performance", "graphics", "display", "storage"}

\* The statements of a routine.
Program(routine) ==
    CASE routine = "system_performance" -> SystemPerformance
      [] routine = "graphics" -> Graphics
      [] routine = "display" -> Display
      [] routine = "storage" -> Storage

\* total_steps as the routine declares it (lines 245, 338, 484, 565).
TotalSteps(routine) ==
    CASE routine = "system_performance" -> 12
      [] routine = "graphics" -> 15
      [] routine = "display" -> 5
      [] routine = "storage" -> 5

\* The statement the routine stands at.
Stmt == Program(opt.routine)[opt.at]

\* The percentage the progress call hands on: show_progress(current_step,
\* total_steps) passes current_step as percent (lines 266, 356), lines 575-618
\* pass (current_step * 100) // total_steps, track_progress_no_dialog(step,
\* total, ...) passes step / total (lines 493-530, 1243-1245).
Percent(form, current_step, total_steps) ==
    IF form = "step" THEN current_step
    ELSE (current_step * 100) \div total_steps

\* One of the routines is called; the display is a Retina display or not.
OptCall(routine, retina) ==
    /\ opt.pc = "off"
    /\ opt' = [opt EXCEPT !.pc = "running", !.routine = routine, !.at = 1,
                          !.retina = retina,
                          !.total_steps = TotalSteps(routine)]
    /\ UNCHANGED <<editor, ver, ui, logf, mem, run, req>>

OptLog ==
    /\ opt.pc = "running" /\ Stmt.op = "log"
    /\ opt' = [opt EXCEPT !.at = @ + 1, !.logs = @ + 1]
    /\ UNCHANGED <<editor, ver, ui, logf, mem, run, req>>

OptCount ==
    /\ opt.pc = "running" /\ Stmt.op = "count"
    /\ opt' = [opt EXCEPT !.at = @ + 1, !.current_step = @ + 1]
    /\ UNCHANGED <<editor, ver, ui, logf, mem, run, req>>

\* subprocess.run(...) returns with return code rc.
OptRun(rc) ==
    /\ opt.pc = "running" /\ Stmt.op = "run"
    /\ opt' = [opt EXCEPT
                   !.at = IF rc = 0 THEN @ + 1 ELSE @ + 1 + Stmt.skip,
                   !.exports = IF Stmt.kind = "export" THEN @ + 1 ELSE @,
                   !.prefs = IF Stmt.kind = "pref" THEN @ + 1 ELSE @]
    /\ UNCHANGED <<editor, ver, ui, logf, mem, run, req>>

OptChanged ==
    /\ opt.pc = "running" /\ Stmt.op = "changed"
    /\ opt' = [opt EXCEPT !.at = @ + 1, !.changes_made = @ + 1]
    /\ UNCHANGED <<editor, ver, ui, logf, mem, run, req>>

OptReport ==
    /\ opt.pc = "running" /\ Stmt.op = "report"
    /\ opt' = [opt EXCEPT
                   !.at = @ + 1,
                   !.percent = Percent(Stmt.form, opt.current_step, opt.total_steps)]
    /\ UNCHANGED <<editor, ver, ui, logf, mem, run, req>>

\* open(..., "w") and the write succeed, or open raises and the routine is
\* left.
OptWrite(ok) ==
    /\ opt.pc = "running" /\ Stmt.op = "write"
    /\ opt' = IF ok
              THEN [opt EXCEPT !.at = @ + 1,
                               !.marker = @ \/ Stmt.kind = "last_graphics_backup"]
              ELSE [opt EXCEPT !.pc = "raised"]
    /\ UNCHANGED <<editor, ver, ui, logf, mem, run, req>>

OptJump ==
    /\ opt.pc = "running" /\ Stmt.op \in {"if_retina", "skip"}
    /\ opt' = [opt EXCEPT
                   !.at = IF Stmt.op = "if_retina" /\ opt.retina
                          THEN @ + 1 ELSE @ + 1 + Stmt.skip]
    /\ UNCHANGED <<editor, ver, ui, logf, mem, run, req>>

OptReturn ==
    /\ opt.pc = "running" /\ Stmt.op = "return"
    /\ opt' = [opt EXCEPT !.pc = "returned"]
    /\ UNCHANGED <<editor, ver, ui, logf, mem, run, req>>

InitOpt == OthersOff /\ EditorOff

NextOpt ==
    \/ \E r \in Routines, b \in BOOLEAN : OptCall(r, b)
    \/ OptLog
    \/ OptCount
    \/ \E rc \in {0, 1} : OptRun(rc)
    \/ OptChanged
    \/ OptReport
    \/ \E ok \in BOOLEAN : OptWrite(ok)
    \/ OptJump
    \/ OptReturn

SpecOpt == InitOpt /\ [][NextOpt]_vars

\* The backup of the graphics settings is complete: the four export commands
\* have returned (check=False: their return codes are not looked at) and
\* last_graphics_backup was written.
BackupComplete == opt.exports = 4 /\ opt.marker

\* C24: in optimize_graphics the backup of the graphics settings (the four
\* exports and the write of last_graphics_backup) is complete before the first
\* preference-changing command is issued, on every run.
C24_BackupBeforePreferences ==
    [][(opt.routine = "graphics" /\ opt'.prefs > opt.prefs) => BackupComplete]_vars

\* optimize_graphics has issued a preference-changing command.
C24_Witness == opt.routine = "graphics" /\ opt.prefs > 0 /\ BackupComplete

\* C28: in each optimize_* routine current_step only increases by 1 per step
\* and never exceeds the routine's total_steps, and the progress reported
\* never passes 100%.
C28_StepWithinTotal ==
    /\ [](opt.current_step <= opt.total_steps /\ opt.percent <= 100)
    /\ [][opt'.current_step \in {opt.current_step, opt.current_step + 1}]_vars

\* ---------------------------------------------------------------------------
\* see_file and modify_code on the same file
\* ---------------------------------------------------------------------------

\* The lines of see_file's output without their labels.
Unlabelled(seen) == [i \in 1..Len(seen) |-> seen[i].line]

\* The entries of see_file's output that carry the label k.
LabelledAs(seen, k) == {i \in 1..Len(seen) : seen[i].number = k}

\* C26: for a file of n lines and 1 <= k <= n, the line see_file labels k is
\* the line modify_code(start_line = k, end_line = k) replaces: after an
\* applied edit, putting that line back in place of the new text gives the
\* file as it was; the labels are 1..n in order, and see_file's lines without
\* their labels are the content of the file.
C26_LabelIsReplacedLine ==
    \A p \in Procs :
        (ValidAccepted(p) /\ args[p].start_line = args[p].end_line)
        => LET k == args[p].start_line
               seen == SeeFile(pre[p][File])
               was == ReadLines(Decode(pre[p][File].data))
               new == ReadLines(Decode(Encode(args[p].new_code \o <<LF>>)))
               now == ReadLines(Decode(disk[File].data))
           IN  /\ Len(seen) = Len(was)
               /\ \A i \in 1..Len(seen) : seen[i].number = i
               /\ Join(Unlabelled(seen)) = Decode(pre[p][File].data)
               /\ Cardinality(LabelledAs(seen, k)) = 1
               /\ Len(now) = Len(was) - 1 + Len(new)
               /\ SubSeq(now, k, k + Len(new) - 1) = new
               /\ was = SubSeq(now, 1, k - 1)
                         \o <<seen[CHOOSE i \in LabelledAs(seen, k) : TRUE].line>>
                         \o SubSeq(now, k + Len(new), Len(now))

\* An applied edit of the second of two different lines.
C26_Witness ==
    \E p \in Procs :
        /\ ValidAccepted(p) /\ result[p] = ModifiedResult
        /\ args[p].start_line = 2 /\ args[p].end_line = 2
        /\ Len(PreLines(p)) = 2
        /\ PreLines(p)[1] # PreLines(p)[2]

\* ---------------------------------------------------------------------------
\* check_system_requirements (src/gui/src/python-app-nicegui.py, lines
\* 202-207) on the value of MACOS_VERSION
\* ---------------------------------------------------------------------------

\* The longest value of MACOS_VERSION, in characters.
MaxReqLen == 5

\* The characters of MACOS_VERSION: sw_vers prints digits and dots.
ReqChars == {"0", "1", "5", "6", "."}

RECURSIVE ReqStrings(_)
ReqStrings(n) ==
    IF n = 0 THEN {<<>>}
    ELSE LET S == ReqStrings(n - 1)
         IN  S \cup {Append(s, c) : s \in {t \in S : Len(t) = n - 1}, c \in ReqChars}

\* MIN_MACOS_VERSION = "10.15" (line 20)
MIN_MACOS_VERSION == <<"1", "0", ".", "1", "5">>

\* v.startswith(prefix)
HasPrefix(v, prefix) ==
    Len(v) >= Len(prefix) /\ SubSeq(v, 1, Len(prefix)) = prefix

\* check_system_requirements() with MACOS_VERSION = v: it returns, it calls
\* error(...) and exit(1), or int(...) of line 203 raises ValueError.
check_system_requirements(v) ==
    IF ~IsDigits(Split(v)[1]) THEN [pc |-> "raised", code |-> 0, errors |-> 0]
    ELSE IF ParseInt(Split(v)[1]) >= 11 \/ HasPrefix(v, MIN_MACOS_VERSION)
    THEN [pc |-> "returned", code |-> 0, errors |-> 0]
    ELSE [pc |-> "exited", code |-> 1, errors |-> 1]

\* sw_vers printed any string of at most MaxReqLen characters.
InitReq ==
    /\ EditorOff
    /\ ver = VerOff /\ ui = UIOff /\ logf = LogOff
    /\ mem = MemOff /\ run = RunOff /\ opt = OptOff
    /\ \E v \in ReqStrings(MaxReqLen) : req = [ReqOff EXCEPT !.v = v]

CheckSystemRequirements ==
    /\ req.pc = "off"
    /\ req' = [v |-> req.v] @@ check_system_requirements(req.v)
    /\ UNCHANGED <<editor, ver, ui, logf, mem, run, opt>>

NextReq == CheckSystemRequirements

SpecReq == InitReq /\ [][NextReq]_vars

\* C27: check_system_requirements returns for every detected version that
\* is 10.15 or later and exits with code 1 for every earlier one: it accepts
\* exactly the versions v with version_compare(v, MIN_MACOS_VERSION) other
\* than 2.
C27_AcceptsFromMinVersion ==
    (req.pc # "off" /\ IsVersion(req.v))
    => IF version_compare(req.v, MIN_MACOS_VERSION) # 2
       THEN req.pc = "returned"
       ELSE req.pc = "exited" /\ req.code = 1

====
